---- MODULE Spec2Model ----
(***************************************************************************)
(* The AI processing pipeline of the meeting service: four Bull queues     *)
(* (transcription, extraction, sentiment, follow-up detection), their      *)
(* workers, the JobOrchestrator that chains them, and the status field of  *)
(* the Meeting document the workers write.                                 *)
(*                                                                         *)
(* Environment: the document store answers every request, except in the    *)
(* scenario of Specification FairSpec where an update made by a worker's   *)
(* error handler may fail; the queue                                       *)
(* broker may reject an add (addOk = FALSE); an external capability        *)
(* (transcription, extraction, sentiment, follow-up detection) may fail on *)
(* any execution; a worker may die while its job is Active, after which    *)
(* the stall detector hands the job back to the Waiting set.               *)
(***************************************************************************)
EXTENDS Integers, Sequences, FiniteSets, TLC

Meetings == {"m1"}

FanOutStages == {"extraction", "sentiment", "followup"}

Stages == {"transcription"} \cup FanOutStages

\* Bounds of the model: calls of startPipeline, calls of cancelPipeline, stall events.
\* A run of the model is disturbed in one way (Scenarios): by failures, by
\* stalls, by cancellation, or by stalls of the fan-out stages while the
\* capabilities report costs and detections.
MaxStartCalls == 2

MaxCancels == 1

MaxStalls == 1

\* Bound of the model: failures injected by the environment (an external
\* capability that fails, an add the queue broker rejects)
MaxFaults == 3

\* an undisturbed run: no failure, stall or cancellation; capabilities that
\* cost nothing and detect nothing; a processor registered on every queue
Quiet ==
  [faults |-> 0, stalls |-> 0, cancels |-> 0, cost |-> 0, detections |-> 0,
   stallable |-> {}, dbFaults |-> FALSE, processors |-> Stages]

Scenarios ==
  { [Quiet EXCEPT !.faults = MaxFaults],
    [Quiet EXCEPT !.stalls = MaxStalls, !.stallable = Stages],
    [Quiet EXCEPT !.cancels = MaxCancels],
    [Quiet EXCEPT !.stalls = MaxStalls, !.stallable = FanOutStages, !.cost = 1, !.detections = 1] }

\* the two worker managers of the service
Managers == {"start", "startAll"}

\* the queues that have a processor once the manager has run.  The
\* transcription queue registers its processor in its constructor.
\* WorkerManager.start calls ExtractionWorker.start and SentimentWorker.start,
\* which register one each.  WorkerManager.startAll calls StartWorker of the
\* queues, which registers event handlers only.  Neither manager touches the
\* follow-up detection queue, whose StartWorker registers event handlers only.
StartedBy(manager) ==
  IF manager = "start" THEN {"transcription", "extraction", "sentiment"}
  ELSE {"transcription"}

\* the failure scenario of FairSpec: a capability fails, and the update of
\* the error handler that runs after it fails as well
FairFaults == 2

\* the runs of Specification FairSpec: undisturbed runs with the processors
\* a manager starts, and runs with every processor in which capabilities and
\* the updates of the workers' error handlers fail
FairScenarios ==
  {[Quiet EXCEPT !.processors = StartedBy(manager)] : manager \in Managers}
    \cup {[Quiet EXCEPT !.faults = FairFaults, !.dbFaults = TRUE]}

\* defaultJobOptions.attempts of the four queues
TranscriptionAttempts == 3

ExtractionAttempts == 3

SentimentAttempts == 3

FollowUpAttempts == 2

MaxAttempts(stage) ==
  CASE stage = "transcription" -> TranscriptionAttempts
    [] stage = "extraction" -> ExtractionAttempts
    [] stage = "sentiment" -> SentimentAttempts
    [] stage = "followup" -> FollowUpAttempts

\* defaultJobOptions.backoff.delay of the four queues (milliseconds)
TranscriptionBackoff == 5000

ExtractionBackoff == 2000

SentimentBackoff == 2000

FollowUpBackoff == 3000

BackoffBase(stage) ==
  CASE stage = "transcription" -> TranscriptionBackoff
    [] stage = "extraction" -> ExtractionBackoff
    [] stage = "sentiment" -> SentimentBackoff
    [] stage = "followup" -> FollowUpBackoff

\* backoff type 'exponential': 5s, then 10s, 20s (base * 2^(attemptsMade-1))
BackoffDelay(stage, attemptsMade) == BackoffBase(stage) * (2 ^ (attemptsMade - 1))

\* config.limits.maxConcurrent (MAX_CONCURRENT_WHISPER default)
MaxConcurrent == 3

\* queue.process(handler) without a concurrency argument runs one job at a time
Concurrency(stage) == IF stage = "transcription" THEN MaxConcurrent ELSE 1

VARIABLES
  meetings,     \* the Meeting documents: [status, error, hasFile, startedAt, completedAt];
                \* status "absent": no such document; startedAt and completedAt
                \* (processing.startedAt, processing.completedAt) are 0 while unset
                \* and n once the date of the n-th write to the field is stored;
                \* cost (processing.cost) tells for each stage how many times the
                \* cost of one call of its capability is contained in the sum;
                \* followUps is the number of follow-up entries that Commitment
                \* documents hold for this meeting
  queues,       \* per stage, the jobs Bull holds, in the order they were added
  nextId,       \* per stage, Bull's job id counter (ids of jobs added without jobId)
  startCalls,   \* number of startPipeline calls so far
  cancelCalls,  \* number of cancelPipeline calls so far
  stalls,       \* number of stall events so far
  faults,       \* number of injected failures so far
  lastStart,    \* the last upload or startPipeline call: its meeting, how startPipeline
                \* ended, and what the upload operation gave back to its caller
  scenario      \* the disturbances the environment may cause in this run

vars == <<meetings, queues, nextId, startCalls, cancelCalls, stalls, faults, lastStart, scenario>>

\* jobId: `transcription-${meetingId}`, `extraction-${meetingId}`, ...
JobId(prefix, m) == [prefix |-> prefix, m |-> m, n |-> 0]

\* the id Bull assigns to a job added without a jobId option
AutoId(k) == [prefix |-> "auto", m |-> "", n |-> k]

\* a processing.cost of 0
ZeroCost == [s \in Stages |-> 0]

NewJob(id, m) ==
  [id |-> id, meetingId |-> m, state |-> "waiting", attemptsMade |-> 0,
   pc |-> "none", loaded |-> "none", runs |-> 0, logicFails |-> 0,
   delay |-> 0, delaysOk |-> TRUE, progress |-> 0, loadedCost |-> ZeroCost]

HasJob(q, id) == \E i \in DOMAIN q : q[i].id = id

\* queue.add that pushes the job whatever the queue holds
QueueAdd_NoDedup(q, id, m) == Append(q, NewJob(id, m))

\* Bull's queue.add: a job whose id is already present in the queue is not
\* added again and the existing job is returned
QueueAdd(q, id, m) == IF HasJob(q, id) THEN q ELSE Append(q, NewJob(id, m))

RECURSIVE RemoveJob(_, _)
RemoveJob(q, id) ==
  IF q = <<>> THEN <<>>
  ELSE IF Head(q).id = id THEN RemoveJob(Tail(q), id)
       ELSE <<Head(q)>> \o RemoveJob(Tail(q), id)

JobsOf(stage, m) == {i \in DOMAIN queues[stage] : queues[stage][i].meetingId = m}

ActiveCount(stage) ==
  Cardinality({i \in DOMAIN queues[stage] : queues[stage][i].state = "active"})

\* Meeting.findByIdAndUpdate(id, {status, 'processing.error'}); no document is
\* created when none has that id
SetStatus(ms, m, status, error) ==
  IF ms[m].status = "absent" THEN ms
  ELSE [ms EXCEPT ![m] = [@ EXCEPT !.status = status, !.error = error]]

\* 'processing.startedAt': new Date() in an update of the document
StampStarted(ms, m) ==
  IF ms[m].status = "absent" THEN ms
  ELSE [ms EXCEPT ![m] = [@ EXCEPT !.startedAt = @ + 1]]

\* 'processing.completedAt': new Date() in an update of the document
StampCompleted(ms, m) ==
  IF ms[m].status = "absent" THEN ms
  ELSE [ms EXCEPT ![m] = [@ EXCEPT !.completedAt = @ + 1]]

\* meeting.processing.cost = (meeting.processing.cost || 0) + result.cost on
\* a document loaded with cost loadedCost, followed by meeting.save(): the
\* save writes the sum when it differs from the loaded value
SaveCost(ms, m, loadedCost, stage) ==
  IF scenario.cost = 0 THEN ms
  ELSE [ms EXCEPT ![m] = [@ EXCEPT !.cost = [loadedCost EXCEPT ![stage] = @ + scenario.cost]]]

\* the environment injects n failures out of its budget
Inject(n) == faults + n <= scenario.faults /\ faults' = faults + n

\* what the update made by a worker's error handler can answer
DbOutcomes == IF scenario.dbFaults THEN BOOLEAN ELSE {TRUE}

\* a capability failed, and the update of the error handler after it unless dbOk
HandlerFault(dbOk) == Inject(IF dbOk THEN 1 ELSE 2)

\* the caller of startPipeline was not an upload operation
NoUpload == [failed |-> FALSE, status |-> "none"]

Init ==
  /\ meetings = [m \in Meetings |->
                   [status |-> "absent", error |-> "none", hasFile |-> FALSE,
                    startedAt |-> 0, completedAt |-> 0, cost |-> ZeroCost, followUps |-> 0]]
  /\ queues = [s \in Stages |-> <<>>]
  /\ nextId = [s \in Stages |-> 1]
  /\ startCalls = 0
  /\ cancelCalls = 0
  /\ stalls = 0
  /\ faults = 0
  /\ lastStart = [meetingId |-> "none", result |-> "none", upload |-> NoUpload]
  /\ scenario \in Scenarios

\* MeetingService.createMeeting: a meeting without a recording
CreateMeeting(m) ==
  /\ meetings[m].status = "absent"
  /\ meetings' = [meetings EXCEPT ![m] = [status |-> "scheduled", error |-> "none", hasFile |-> FALSE,
                                          startedAt |-> 0, completedAt |-> 0,
                                          cost |-> ZeroCost, followUps |-> 0]]
  /\ UNCHANGED <<queues, nextId, startCalls, cancelCalls, stalls, faults, lastStart, scenario>>

\* JobOrchestrator.startPipeline applied to the documents ms; upload is what
\* the calling upload operation gives back
StartPipelineOn(ms, m, addOk, upload) ==
  IF addOk
  THEN /\ queues' = [queues EXCEPT !["transcription"] =
                       QueueAdd(@, JobId("transcription", m), m)]
       /\ meetings' = ms
       /\ lastStart' = [meetingId |-> m,
                         result |-> IF HasJob(queues["transcription"], JobId("transcription", m))
                                    THEN "existing" ELSE "queued",
                         upload |-> upload]
  ELSE /\ queues' = queues
       /\ meetings' = SetStatus(ms, m, "failed", "pipeline_start")
       /\ lastStart' = [meetingId |-> m, result |-> "error", upload |-> upload]

StartPipeline(m) ==
  /\ startCalls < MaxStartCalls
  /\ meetings[m].hasFile
  /\ \E addOk \in BOOLEAN :
       StartPipelineOn(meetings, m, addOk, NoUpload) /\ Inject(IF addOk THEN 0 ELSE 1)
  /\ startCalls' = startCalls + 1
  /\ UNCHANGED <<nextId, cancelCalls, stalls, scenario>>

\* an upload operation that lets the error of step 3 reach its caller
UploadOutcome_Rethrow(step3Ok, status) ==
  IF step3Ok THEN [failed |-> FALSE, status |-> status]
  ELSE [failed |-> TRUE, status |-> "none"]

\* what an upload operation gives back: step 3 (download, startPipeline) sits
\* in a try block whose catch only logs, and the UploadResult carries the
\* status of the document as the operation saved it
UploadOutcome(step3Ok, status) == [failed |-> FALSE, status |-> status]

\* steps 2 and 3 of both upload operations: the document is saved with the
\* recording and status 'pending'; then downloadFileToTemp fails, or it
\* succeeds and startPipeline is called
SaveAndStart(m, error) ==
  LET ms == [meetings EXCEPT ![m] = [@ EXCEPT !.status = "pending", !.error = error, !.hasFile = TRUE]]
  IN \/ /\ \E addOk \in BOOLEAN :
             /\ StartPipelineOn(ms, m, addOk, UploadOutcome(addOk, ms[m].status))
             /\ Inject(IF addOk THEN 0 ELSE 1)
        /\ startCalls' = startCalls + 1
     \/ /\ meetings' = ms
        /\ lastStart' = [meetingId |-> m, result |-> "not_called",
                          upload |-> UploadOutcome(FALSE, ms[m].status)]
        /\ Inject(1)
        /\ UNCHANGED <<queues, startCalls>>

\* UploadService.uploadFileToCloud: a new meeting is created for the recording
UploadFileToCloud(m) ==
  /\ startCalls < MaxStartCalls
  /\ meetings[m].status = "absent"
  /\ SaveAndStart(m, "none")
  /\ UNCHANGED <<nextId, cancelCalls, stalls, scenario>>

\* UploadService.attachFileToMeeting: the recording is attached to a meeting
\* that has none
AttachFile(m) ==
  /\ startCalls < MaxStartCalls
  /\ meetings[m].status # "absent"
  /\ ~meetings[m].hasFile
  /\ SaveAndStart(m, meetings[m].error)
  /\ UNCHANGED <<nextId, cancelCalls, stalls, scenario>>

SetJob(stage, i, j) == [queues EXCEPT ![stage] = [@ EXCEPT ![i] = j]]

\* Bull hands a Waiting job to the processor: Waiting -> Active
ClaimJob(j, pc, loaded) ==
  [j EXCEPT !.state = "active", !.pc = pc, !.loaded = loaded, !.runs = @ + 1]

CanClaim(stage, i) ==
  /\ stage \in scenario.processors
  /\ queues[stage][i].state = "waiting"
  /\ ActiveCount(stage) < Concurrency(stage)

\* Bull's handling of a processor that throws: attemptsMade is incremented;
\* while attempts remain the job is delayed by the backoff, otherwise it is Failed
MoveToFailed(stage, j) ==
  LET a == j.attemptsMade + 1
      d == BackoffDelay(stage, a)
  IN IF a < MaxAttempts(stage)
     THEN [j EXCEPT !.attemptsMade = a, !.state = "delayed", !.pc = "none",
                    !.logicFails = @ + 1, !.delay = d,
                    !.delaysOk = @ /\ (d >= j.delay), !.loadedCost = ZeroCost]
     ELSE [j EXCEPT !.attemptsMade = a, !.state = "failed", !.pc = "none",
                    !.logicFails = @ + 1, !.loadedCost = ZeroCost]

\* Bull's handling of a processor that returns: Active -> Completed
MoveToCompleted(j) == [j EXCEPT !.state = "completed", !.pc = "none", !.loadedCost = ZeroCost]

\* the backoff delay of a Delayed job expires: Delayed -> Waiting
Promote(stage, i) ==
  /\ queues[stage][i].state = "delayed"
  /\ queues' = SetJob(stage, i, [queues[stage][i] EXCEPT !.state = "waiting"])
  /\ UNCHANGED <<meetings, nextId, startCalls, cancelCalls, stalls, faults, lastStart, scenario>>

------------------------------------------------------------------------------
\* TranscriptionWorker

\* onFailed that marks the meeting for another run, as onStalled does
OnFailed_Pending(ms, j) ==
  IF j.attemptsMade >= MaxAttempts("transcription")
  THEN SetStatus(ms, j.meetingId, "pending", "exhausted")
  ELSE ms

\* TranscriptionWorker.onFailed, run on the queue's 'failed' event
OnFailed(ms, j) ==
  IF j.attemptsMade >= MaxAttempts("transcription")
  THEN StampCompleted(SetStatus(ms, j.meetingId, "failed", "exhausted"), j.meetingId)
  ELSE ms

\* a catch block whose own error escapes the processor without the job
\* being reported as failed
TranscriptionFail_Leak(i, progress, dbOk) ==
  LET j == [queues["transcription"][i] EXCEPT !.progress = progress]
      f == IF dbOk THEN MoveToFailed("transcription", j) ELSE [j EXCEPT !.pc = "none"]
  IN /\ queues' = SetJob("transcription", i, f)
     /\ meetings' = IF dbOk
                     THEN OnFailed(StampCompleted(SetStatus(meetings, j.meetingId, "failed",
                                                            "transcription"), j.meetingId), f)
                     ELSE meetings
     /\ UNCHANGED nextId

\* the catch block of TranscriptionWorker.processJob, the re-throw, and the
\* 'failed' event that follows it; progress is the last progress the job
\* reported before the error.  The update of the catch block is not guarded:
\* when it fails (~dbOk) its error leaves processJob in place of the first
\* one, and the queue fails the job with it
TranscriptionFail(i, progress, dbOk) ==
  LET j == [queues["transcription"][i] EXCEPT !.progress = progress]
      f == MoveToFailed("transcription", j)
  IN /\ queues' = SetJob("transcription", i, f)
     /\ meetings' = OnFailed(IF dbOk
                              THEN StampCompleted(SetStatus(meetings, j.meetingId, "failed",
                                                            "transcription"), j.meetingId)
                              ELSE meetings, f)
     /\ UNCHANGED nextId

\* the processor picks the job up; processJob reports progress 10
TClaim(i) ==
  /\ CanClaim("transcription", i)
  /\ queues' = SetJob("transcription", i,
                      [ClaimJob(queues["transcription"][i], "validate", "none") EXCEPT !.progress = 10])
  /\ UNCHANGED <<meetings, nextId, startCalls, cancelCalls, stalls, faults, lastStart, scenario>>

\* steps 1-3 of processJob: validate the file (progress 25), read its
\* metadata (progress 40), set status 'processing' (progress 50); the job
\* fails when validate throws (at progress 10) or getMetadata does (at 25)
TValidate(i) ==
  LET j == queues["transcription"][i]
  IN /\ j.state = "active" /\ j.pc = "validate"
     /\ \/ /\ meetings' = StampStarted(SetStatus(meetings, j.meetingId, "processing",
                                                meetings[j.meetingId].error), j.meetingId)
           /\ queues' = SetJob("transcription", i, [j EXCEPT !.pc = "transcribe", !.progress = 50])
           /\ UNCHANGED nextId
           /\ Inject(0)
        \/ \E p \in {10, 25}, dbOk \in DbOutcomes :
             TranscriptionFail(i, p, dbOk) /\ HandlerFault(dbOk)
     /\ UNCHANGED <<startCalls, cancelCalls, stalls, lastStart, scenario>>

\* step 5 of processJob: one update sets status 'transcribed', the transcript,
\* processing.completedAt and processing.cost (the cost of the transcription)
SaveTranscript(ms, m) ==
  LET st == StampCompleted(SetStatus(ms, m, "transcribed", ms[m].error), m)
  IN [st EXCEPT ![m] = [@ EXCEPT !.cost = [ZeroCost EXCEPT !["transcription"] = scenario.cost]]]

\* steps 4-5 of processJob: transcribe (progress 90), save the transcript
\* with status 'transcribed' (progress 100)
TTranscribe(i) ==
  LET j == queues["transcription"][i]
  IN /\ j.state = "active" /\ j.pc = "transcribe"
     /\ \/ /\ meetings' = SaveTranscript(meetings, j.meetingId)
           /\ queues' = SetJob("transcription", i, [j EXCEPT !.pc = "fanout", !.progress = 100])
           /\ UNCHANGED nextId
           /\ Inject(0)
        \/ \E dbOk \in DbOutcomes : TranscriptionFail(i, j.progress, dbOk) /\ HandlerFault(dbOk)
     /\ UNCHANGED <<startCalls, cancelCalls, stalls, lastStart, scenario>>

\* ExtractionQueue.addJob, SentimentQueue.addJob, FollowUpDetectionQueue.addJob:
\* queue.add(data, {priority}) without a jobId, so Bull numbers the job itself
FanOutAdd(q, k, m) == QueueAdd(q, AutoId(k), m)

\* JobOrchestrator.onTranscriptionComplete: the three addJob calls run in
\* parallel and each is accepted (stage in added) or rejected by the broker; a
\* rejected extraction or sentiment add marks the meeting failed, a rejected
\* follow-up add is swallowed by FollowUpDetectionQueue.addJob
OnTranscriptionComplete(qs, m, added) ==
  /\ queues' = [s \in Stages |->
                  IF s \in added THEN FanOutAdd(qs[s], nextId[s], m) ELSE qs[s]]
  /\ nextId' = [s \in Stages |-> IF s \in added THEN nextId[s] + 1 ELSE nextId[s]]
  /\ meetings' = IF {"extraction", "sentiment"} \subseteq added
                 THEN meetings
                 ELSE SetStatus(meetings, m, "failed", "post_transcription")

\* JobOrchestrator.onTranscriptionComplete when the update of its catch
\* block fails: the error leaves onTranscriptionComplete and reaches the catch
\* block of processJob, whose update succeeds or fails (dbOk); the queue
\* fails transcription job i
FanOutCatchFails(i, added, dbOk) ==
  LET j == queues["transcription"][i]
      f == MoveToFailed("transcription", j)
      qs == SetJob("transcription", i, f)
  IN /\ ~({"extraction", "sentiment"} \subseteq added)
     /\ queues' = [s \in Stages |->
                     IF s \in added THEN FanOutAdd(qs[s], nextId[s], j.meetingId) ELSE qs[s]]
     /\ nextId' = [s \in Stages |-> IF s \in added THEN nextId[s] + 1 ELSE nextId[s]]
     /\ meetings' = OnFailed(IF dbOk
                              THEN StampCompleted(SetStatus(meetings, j.meetingId, "failed",
                                                            "transcription"), j.meetingId)
                              ELSE meetings, f)

\* processJob calls JobOrchestrator.onTranscriptionComplete
TFanOut(i) ==
  LET j == queues["transcription"][i]
  IN /\ j.state = "active" /\ j.pc = "fanout"
     /\ \E added \in SUBSET FanOutStages :
          \/ /\ OnTranscriptionComplete(SetJob("transcription", i, [j EXCEPT !.pc = "return"]),
                                        j.meetingId, added)
             /\ Inject(Cardinality(FanOutStages \ added))
          \/ /\ scenario.dbFaults
             /\ \E dbOk \in BOOLEAN :
                  /\ FanOutCatchFails(i, added, dbOk)
                  /\ Inject(Cardinality(FanOutStages \ added) + (IF dbOk THEN 1 ELSE 2))
     /\ UNCHANGED <<startCalls, cancelCalls, stalls, lastStart, scenario>>

\* processJob returns its result; TranscriptionWorker.onCompleted only logs
TReturn(i) ==
  LET j == queues["transcription"][i]
  IN /\ j.state = "active" /\ j.pc = "return"
     /\ queues' = SetJob("transcription", i, MoveToCompleted(j))
     /\ UNCHANGED <<meetings, nextId, startCalls, cancelCalls, stalls, faults, lastStart, scenario>>

------------------------------------------------------------------------------
\* ExtractionWorker

\* the catch block of a fan-out worker's processJob (status 'failed' and the
\* stage's error message) followed by the re-throw
StageFail(stage, i, dbOk) ==
  LET j == queues[stage][i]
  IN /\ queues' = SetJob(stage, i, MoveToFailed(stage, j))
     /\ meetings' = IF dbOk THEN SetStatus(meetings, j.meetingId, "failed", stage) ELSE meetings

\* the processor picks the job up; processJob loads the meeting, sets
\* meeting.status = 'processing' and saves
EStart(i) ==
  LET j == queues["extraction"][i]
  IN /\ CanClaim("extraction", i)
     /\ queues' = SetJob("extraction", i,
                         [ClaimJob(j, "run", "none") EXCEPT !.loadedCost = meetings[j.meetingId].cost])
     /\ meetings' = SetStatus(meetings, j.meetingId, "processing", meetings[j.meetingId].error)
     /\ UNCHANGED <<nextId, startCalls, cancelCalls, stalls, faults, lastStart, scenario>>

\* the second save of ExtractionWorker.processJob: the action items and the
\* decisions replace the stored ones, processing.cost is the loaded cost plus
\* the cost of the extraction
ExtractionSave(ms, j) == SaveCost(ms, j.meetingId, j.loadedCost, "extraction")

\* extractFromTranscript answers; the second save writes the action items, the
\* decisions and processing.cost, and leaves the status as it is in the store
EFinish(i) ==
  LET j == queues["extraction"][i]
  IN /\ j.state = "active" /\ j.pc = "run"
     /\ \/ /\ queues' = SetJob("extraction", i, MoveToCompleted(j))
           /\ meetings' = ExtractionSave(meetings, j)
           /\ Inject(0)
        \/ \E dbOk \in DbOutcomes : StageFail("extraction", i, dbOk) /\ HandlerFault(dbOk)
     /\ UNCHANGED <<nextId, startCalls, cancelCalls, stalls, lastStart, scenario>>

------------------------------------------------------------------------------
\* SentimentWorker

\* meeting.save() after meeting.status = 'completed': the document writes the
\* paths whose value differs from the value it was loaded with
SaveCompleted(ms, m, loaded) ==
  StampCompleted(IF loaded = "completed" THEN ms ELSE SetStatus(ms, m, "completed", ms[m].error), m)

\* the save of SentimentWorker.processJob: sentiment, processing.cost (the
\* loaded cost plus the cost of the analysis), processing.completedAt, status
SentimentSave(ms, j) ==
  SaveCost(SaveCompleted(ms, j.meetingId, j.loaded), j.meetingId, j.loadedCost, "sentiment")

\* the processor picks the job up; processJob loads the meeting
SStart(i) ==
  LET j == queues["sentiment"][i]
  IN /\ CanClaim("sentiment", i)
     /\ queues' = SetJob("sentiment", i,
                         [ClaimJob(j, "run", meetings[j.meetingId].status)
                            EXCEPT !.loadedCost = meetings[j.meetingId].cost])
     /\ UNCHANGED <<meetings, nextId, startCalls, cancelCalls, stalls, faults, lastStart, scenario>>

\* analyzeSentiment answers; the save writes the sentiment, processing.cost,
\* processing.completedAt and status 'completed'
SFinish(i) ==
  LET j == queues["sentiment"][i]
  IN /\ j.state = "active" /\ j.pc = "run"
     /\ \/ /\ queues' = SetJob("sentiment", i, MoveToCompleted(j))
           /\ meetings' = SentimentSave(meetings, j)
           /\ Inject(0)
        \/ \E dbOk \in DbOutcomes : StageFail("sentiment", i, dbOk) /\ HandlerFault(dbOk)
     /\ UNCHANGED <<nextId, startCalls, cancelCalls, stalls, lastStart, scenario>>

------------------------------------------------------------------------------
\* FollowUpDetectorWorker

\* the processor picks the job up; processJob loads the meeting
FStart(i) ==
  LET j == queues["followup"][i]
  IN /\ CanClaim("followup", i)
     /\ queues' = SetJob("followup", i,
                         [ClaimJob(j, "run", "none") EXCEPT !.loadedCost = meetings[j.meetingId].cost])
     /\ UNCHANGED <<meetings, nextId, startCalls, cancelCalls, stalls, faults, lastStart, scenario>>

\* the catch block of FollowUpDetectorWorker.processJob: the error message is
\* stored, the status is left alone and the error is not re-thrown, so the
\* job returns normally
FollowUpCatch(i, dbOk) ==
  LET j == queues["followup"][i]
  IN /\ queues' = SetJob("followup", i, MoveToCompleted([j EXCEPT !.logicFails = @ + 1]))
     /\ meetings' = IF dbOk
                     THEN SetStatus(meetings, j.meetingId, meetings[j.meetingId].status, "followup")
                     ELSE meetings

\* steps 3 and 4 of FollowUpDetectorWorker.processJob: addFollowUp pushes an
\* entry onto the commitment's followUps (and counts the mention), then
\* processing.cost is saved as the loaded cost plus the cost of the detection
FollowUpSave(ms, j) ==
  SaveCost([ms EXCEPT ![j.meetingId] = [@ EXCEPT !.followUps = @ + 1]],
           j.meetingId, j.loadedCost, "followup")

\* detectCommitmentFollowUps answers without a detection (processJob returns),
\* or with detections that are stored, or it throws
FFinish(i) ==
  LET j == queues["followup"][i]
  IN /\ j.state = "active" /\ j.pc = "run"
     /\ \/ /\ queues' = SetJob("followup", i, MoveToCompleted(j))
           /\ \/ UNCHANGED meetings
              \/ scenario.detections > 0 /\ meetings' = FollowUpSave(meetings, j)
           /\ Inject(0)
        \/ \E dbOk \in DbOutcomes : FollowUpCatch(i, dbOk) /\ HandlerFault(dbOk)
     /\ UNCHANGED <<nextId, startCalls, cancelCalls, stalls, lastStart, scenario>>

------------------------------------------------------------------------------
\* Stall detection and cancellation

\* TranscriptionWorker.onStalled; the other queues' 'stalled' handlers only log
OnStalled(ms, stage, m) ==
  IF stage = "transcription" THEN SetStatus(ms, m, "pending", "stalled") ELSE ms

\* what the worker of a fan-out stage wrote before it died: nothing when it
\* died before its save, the save's writes when it died between the save and
\* the return of processJob
WrittenBeforeDeath(ms, stage, j, saved) ==
  IF ~saved \/ stage = "transcription" THEN ms
  ELSE IF stage = "extraction" THEN ExtractionSave(ms, j)
  ELSE IF stage = "sentiment" THEN SentimentSave(ms, j)
  ELSE IF scenario.detections > 0 THEN FollowUpSave(ms, j)
  ELSE ms

\* the worker of an Active job has died; the stall detector moves the job
\* back to Waiting and the queue emits 'stalled'
Stall(stage, i) ==
  LET j == queues[stage][i]
  IN /\ stalls < scenario.stalls
     /\ stage \in scenario.stallable
     /\ j.state = "active"
     /\ queues' = SetJob(stage, i, [j EXCEPT !.state = "waiting", !.pc = "none", !.loaded = "none",
                                               !.loadedCost = ZeroCost])
     /\ \E saved \in BOOLEAN :
          meetings' = OnStalled(WrittenBeforeDeath(meetings, stage, j, saved), stage, j.meetingId)
     /\ stalls' = stalls + 1
     /\ UNCHANGED <<nextId, startCalls, cancelCalls, faults, lastStart, scenario>>

\* getJob(id) followed by job.remove(): "absent" when the queue has no job of
\* that id, "locked" when the job is Active (remove throws), else "removed"
RemoveOutcome(q, id) ==
  IF ~HasJob(q, id) THEN "absent"
  ELSE IF \E i \in DOMAIN q : q[i].id = id /\ q[i].state = "active" THEN "locked"
  ELSE "removed"

\* the order in which cancelPipeline looks the four jobs up
CancelOrder == <<"transcription", "extraction", "sentiment", "followup">>

\* the jobId cancelPipeline looks up in a stage's queue
CancelId(stage, m) == JobId(IF stage = "followup" THEN "follow-up" ELSE stage, m)

\* JobOrchestrator.cancelPipeline applied to the queues qs and the documents
\* ms: the jobs transcription-, extraction-, sentiment- and
\* follow-up-<meetingId> are looked up and removed in turn; a remove that
\* throws ends the call with that error, before the status is written
CancelOn(qs, ms, m) ==
  LET out == [s \in Stages |-> RemoveOutcome(qs[s], CancelId(s, m))]
      Reached(k) == \A l \in 1..(k - 1) : out[CancelOrder[l]] # "locked"
  IN [queues |-> [s \in Stages |->
                    IF \E k \in 1..4 : CancelOrder[k] = s /\ Reached(k) /\ out[s] = "removed"
                    THEN RemoveJob(qs[s], CancelId(s, m))
                    ELSE qs[s]],
      meetings |-> IF Reached(5)
                   THEN StampCompleted(SetStatus(ms, m, "cancelled", "cancelled"), m)
                   ELSE ms,
      error |-> ~Reached(5)]

CancelPipeline(m) ==
  /\ cancelCalls < scenario.cancels
  /\ cancelCalls' = cancelCalls + 1
  /\ queues' = CancelOn(queues, meetings, m).queues
  /\ meetings' = CancelOn(queues, meetings, m).meetings
  /\ UNCHANGED <<nextId, startCalls, stalls, faults, lastStart, scenario>>

------------------------------------------------------------------------------
\* Status queries

\* getJobStatus found no job of that id
Null == [state |-> "null", progress |-> 0]

\* getJobStatus threw
Thrown == [state |-> "thrown", progress |-> 0]

\* getJobStatus without the check for a missing job: reading the state of null throws
GetJobStatus_Throw(q, id, brokerOk) ==
  IF ~brokerOk \/ ~HasJob(q, id) THEN Thrown
  ELSE LET j == q[CHOOSE i \in DOMAIN q : q[i].id = id]
       IN [state |-> j.state, progress |-> j.progress]

\* getJobStatus of a queue: queue.getJob(jobId), null when there is no such
\* job, else the job's state and progress; it throws when the broker does
\* not answer
GetJobStatus(q, id, brokerOk) ==
  IF ~brokerOk THEN Thrown
  ELSE IF ~HasJob(q, id) THEN Null
  ELSE LET j == q[CHOOSE i \in DOMAIN q : q[i].id = id]
       IN [state |-> j.state, progress |-> j.progress]

\* the entry getPipelineStatus reports for a stage whose getJobStatus is null
Placeholder(stage) ==
  [state |-> IF stage = "transcription" THEN "unknown" ELSE "pending", progress |-> 0]

\* JobOrchestrator.getPipelineStatus: the jobs transcription-, extraction-,
\* sentiment- and follow-up-<meetingId> are looked up (the ids cancelPipeline
\* uses); the catch block answers 'unknown' for every stage, with the error
GetPipelineStatus(m, brokerOk) ==
  LET st == [s \in Stages |-> GetJobStatus(queues[s], CancelId(s, m), brokerOk)]
  IN IF \E s \in Stages : st[s] = Thrown
     THEN [stages |-> [s \in Stages |-> [state |-> "unknown", progress |-> 0]],
           error |-> TRUE]
     ELSE [stages |-> [s \in Stages |-> IF st[s] = Null THEN Placeholder(s) ELSE st[s]],
           error |-> FALSE]

------------------------------------------------------------------------------
\* Properties

Job(stage, i) == queues[stage][i]

JobsIn(stage, m, states) == {i \in JobsOf(stage, m) : Job(stage, i).state \in states}

RequiredStages == {"transcription", "extraction", "sentiment"}

\* C1: two startPipeline calls for one meeting enqueue at most one
\* transcription job; a call made while the meeting's transcription job is
\* waiting, delayed or active, and which the broker accepts, changes neither
\* the queues nor the meeting and ends without an error.
C1_IdempotentSubmission ==
  /\ [](\A m \in Meetings : Cardinality(JobsOf("transcription", m)) <= 1)
  /\ [][(/\ startCalls' = startCalls + 1
         /\ faults' = faults
         /\ JobsIn("transcription", lastStart'.meetingId, {"waiting", "delayed", "active"}) # {})
        => (/\ queues' = queues
            /\ meetings' = meetings
            /\ lastStart'.result = "existing")]_vars

C1_Witness ==
  /\ startCalls = 2
  /\ lastStart.result = "existing"
  /\ \E m \in Meetings :
       /\ lastStart.meetingId = m
       /\ Cardinality(JobsIn("transcription", m, {"waiting", "delayed", "active"})) = 1

\* C2: for every meeting and stage at most one job is waiting or active.
C2_AtMostOneActivePerStage ==
  \A m \in Meetings : \A s \in Stages :
    Cardinality(JobsIn(s, m, {"waiting", "active"})) <= 1

\* C3: once the transcription job of a meeting is completed, each of
\* extraction, sentiment and follow-up detection has been enqueued exactly
\* once for that meeting.
C3_FanOutExactlyOnce ==
  \A m \in Meetings :
    JobsIn("transcription", m, {"completed"}) # {}
      => \A s \in FanOutStages : Cardinality(JobsOf(s, m)) = 1

\* C4: a fan-out job of a meeting exists only when the meeting's
\* transcription job is completed.
C4_FanOutAfterCompleted ==
  \A m \in Meetings : \A s \in FanOutStages :
    JobsOf(s, m) # {} => JobsIn("transcription", m, {"completed"}) # {}

\* C5: whenever a meeting's status is 'completed', extraction and sentiment
\* each have a completed job for it.
C5_CompletedImpliesRequiredDone ==
  \A m \in Meetings :
    meetings[m].status = "completed"
      => \A s \in {"extraction", "sentiment"} : JobsIn(s, m, {"completed"}) # {}

AllStagesCompleted(m) ==
  \A s \in Stages :
    /\ JobsOf(s, m) # {}
    /\ \A i \in JobsOf(s, m) : Job(s, i).state = "completed"

\* C6: without cancellation, once all four stages of a meeting are completed
\* (no job of the meeting is left to run) the meeting's status is 'completed'.
C6_AllCompletedImpliesCompleted ==
  \A m \in Meetings :
    (cancelCalls = 0 /\ AllStagesCompleted(m)) => meetings[m].status = "completed"

Rank(status) ==
  CASE status = "absent" -> 0
    [] status = "scheduled" -> 0
    [] status = "pending" -> 1
    [] status = "processing" -> 2
    [] status = "transcribed" -> 3
    [] status = "completed" -> 4
    [] OTHER -> 5

\* C7: without cancelPipeline and without a second startPipeline call, no
\* step moves a meeting's status backward in scheduled < pending <
\* processing < transcribed < completed, and no step leaves 'failed'.
C7_StatusMonotone ==
  [][(cancelCalls' = 0 /\ startCalls' <= 1)
       => \A m \in Meetings : Rank(meetings'[m].status) >= Rank(meetings[m].status)]_vars

C9_RetryBound ==
  \A s \in Stages : \A i \in DOMAIN queues[s] :
    /\ Job(s, i).attemptsMade <= MaxAttempts(s)
    /\ Job(s, i).delaysOk
    /\ (Job(s, i).state \in {"completed", "failed"} /\ Job(s, i).runs > 0
          /\ Job(s, i).logicFails = Job(s, i).runs)
         => (Job(s, i).state = "failed" /\ Job(s, i).runs = MaxAttempts(s))

FailedRequired(qs, m) ==
  \E s \in RequiredStages : \E i \in DOMAIN qs[s] :
    qs[s][i].meetingId = m /\ qs[s][i].state = "failed"

\* C10: without cancellation, the step in which a required stage of a meeting
\* fails terminally leaves the meeting's status 'failed' with an error
\* message, and no step taken while a required stage has a terminally failed
\* job sets the status to 'completed'.
C10_FailedIsSticky ==
  [][cancelCalls' = 0 =>
       \A m \in Meetings :
         /\ (FailedRequired(queues', m) /\ ~FailedRequired(queues, m))
              => (meetings'[m].status = "failed" /\ meetings'[m].error # "none")
         /\ FailedRequired(queues, m) => meetings'[m].status # "completed"]_vars

\* C11: a step in which an execution of a stage job fails while retries
\* remain (the job goes from Active to Delayed) leaves the status of every
\* meeting as it was.
C11_RetryKeepsStatus ==
  [][\A s \in Stages : \A i \in DOMAIN queues[s] :
       (/\ Len(queues'[s]) = Len(queues[s])
        /\ queues[s][i].state = "active"
        /\ queues'[s][i].state = "delayed"
        /\ queues'[s][i].attemptsMade < MaxAttempts(s))
       => \A m \in Meetings : meetings'[m].status = meetings[m].status]_vars

RequiredSucceeded(m) ==
  \A s \in RequiredStages :
    /\ JobsOf(s, m) # {}
    /\ \A i \in JobsOf(s, m) : Job(s, i).state = "completed" /\ Job(s, i).logicFails = 0

FollowUpFailedForGood(m) ==
  \A i \in JobsOf("followup", m) :
    Job("followup", i).state = "completed" /\ Job("followup", i).logicFails > 0

\* C12: without stalls and cancellation, once transcription, extraction and
\* sentiment of a meeting have completed without a failure and follow-up
\* detection has failed for good (its add was rejected, or its execution
\* failed), the meeting's status is 'completed'; and neither the step in which
\* the follow-up add is rejected nor the step in which the follow-up
\* execution fails changes the meeting's status.
C12_OptionalStageFailure ==
  /\ [](\A m \in Meetings :
          (stalls = 0 /\ cancelCalls = 0 /\ RequiredSucceeded(m) /\ FollowUpFailedForGood(m))
            => meetings[m].status = "completed")
  /\ [][\A m \in Meetings :
          (\/ /\ Len(queues'["followup"]) = Len(queues["followup"])
              /\ \E i \in JobsOf("followup", m) :
                   queues'["followup"][i].logicFails > queues["followup"][i].logicFails
           \/ /\ queues'["followup"] = queues["followup"]
              /\ Len(queues'["extraction"]) > Len(queues["extraction"])
              /\ Len(queues'["sentiment"]) > Len(queues["sentiment"]))
          => meetings'[m].status = meetings[m].status]_vars

FanOutInProgress(qs, m) ==
  /\ \E i \in DOMAIN qs["transcription"] :
       qs["transcription"][i].meetingId = m /\ qs["transcription"][i].state = "completed"
  /\ \E s \in FanOutStages : \E i \in DOMAIN qs[s] :
       qs[s][i].meetingId = m /\ qs[s][i].state \in {"waiting", "delayed", "active"}

\* C13: a cancelPipeline call made while the fan-out stages of the meeting
\* are in progress leaves no Waiting or Delayed job of that meeting in any
\* queue.
C13_CancelRemovesTasks ==
  [][(cancelCalls' = cancelCalls + 1)
       => \A m \in Meetings :
            (FanOutInProgress(queues, m) /\ meetings'[m].status = "cancelled")
              => \A s \in Stages : \A i \in DOMAIN queues'[s] :
                   queues'[s][i].meetingId = m
                     => queues'[s][i].state \notin {"waiting", "delayed"}]_vars

\* C14: every cancelPipeline call for an existing meeting leaves the
\* meeting's status 'cancelled'.
C14_CancelAlwaysCancels ==
  [][(cancelCalls' = cancelCalls + 1)
       => \A m \in Meetings :
            meetings[m].status # "absent" => meetings'[m].status = "cancelled"]_vars

\* a job that is Active and was claimed before the meeting was cancelled
\* (the sentiment worker remembers the status it loaded at the claim; the
\* extraction worker writes 'processing' at the claim)
ActiveSinceBeforeCancel(s, i) ==
  Job(s, i).state = "active" /\ Job(s, i).loaded # "cancelled"

\* C15: while a meeting's status is 'cancelled' and it has not been
\* re-submitted (no startPipeline call after the first), the step in which a
\* worker that was Active when the meeting was cancelled finishes or fails
\* leaves the status 'cancelled'.
C15_CancelledIsSticky ==
  [][(startCalls' = startCalls /\ startCalls <= 1)
       => \A m \in Meetings :
            (/\ meetings[m].status = "cancelled"
             /\ \E s \in Stages : \E i \in JobsOf(s, m) :
                  /\ ActiveSinceBeforeCancel(s, i)
                  /\ Len(queues'[s]) = Len(queues[s])
                  /\ queues'[s][i].state # "active")
            => meetings'[m].status = "cancelled"]_vars

\* C16: a startPipeline call that the transcription queue rejects ends with
\* an error and leaves the meeting record as it was.
C16_RejectedStartKeepsMeeting ==
  [][(/\ startCalls' = startCalls + 1
      /\ lastStart'.result = "error"
      /\ \A m \in Meetings : meetings[m].hasFile)
       => meetings' = meetings]_vars

\* C17: after an upload operation whose startPipeline call ended with an
\* error, the operation has given its caller the upload result (it did not
\* fail) and the meeting document exists with the recording attached.
C17_UploadSurvivesStartError ==
  \A m \in Meetings :
    (lastStart.meetingId = m /\ lastStart.result = "error" /\ lastStart.upload # NoUpload)
      => /\ ~lastStart.upload.failed
         /\ lastStart.upload.status = "pending"
         /\ meetings[m].status # "absent"
         /\ meetings[m].hasFile

C17_Witness ==
  \E m \in Meetings :
    /\ lastStart.meetingId = m /\ lastStart.result = "error"
    /\ lastStart.upload = [failed |-> FALSE, status |-> "pending"]
    /\ meetings[m].hasFile
    /\ meetings[m].status = "failed"

\* C18 as stated: while the broker answers, getPipelineStatus of an existing
\* meeting ends without an error and reports state 'pending' with progress 0
\* for every stage in which the meeting has no job.
C18_PendingPlaceholder ==
  \A m \in Meetings : \A s \in Stages :
    (meetings[m].status # "absent" /\ JobsOf(s, m) = {})
      => /\ ~GetPipelineStatus(m, TRUE).error
         /\ GetPipelineStatus(m, TRUE).stages[s] = [state |-> "pending", progress |-> 0]

\* C18 as amended: while the broker answers, getPipelineStatus of an existing
\* meeting ends without an error and reports, for every stage in which the
\* meeting has no job, an entry with progress 0 whose state is 'pending' for
\* extraction, sentiment and follow-up detection and 'unknown' for
\* transcription.
C18_Placeholder ==
  \A m \in Meetings : \A s \in Stages :
    (meetings[m].status # "absent" /\ JobsOf(s, m) = {})
      => /\ ~GetPipelineStatus(m, TRUE).error
         /\ GetPipelineStatus(m, TRUE).stages[s].progress = 0
         /\ GetPipelineStatus(m, TRUE).stages[s].state =
              (IF s = "transcription" THEN "unknown" ELSE "pending")

C18_Witness ==
  \E m \in Meetings :
    /\ JobsIn("transcription", m, {"active"}) # {}
    /\ \A s \in FanOutStages : JobsOf(s, m) = {}
    /\ ~GetPipelineStatus(m, TRUE).error
    /\ GetPipelineStatus(m, TRUE).stages["transcription"].state = "active"
    /\ \A s \in FanOutStages :
         GetPipelineStatus(m, TRUE).stages[s] = [state |-> "pending", progress |-> 0]

\* C19: while the broker answers, getPipelineStatus reports for every stage
\* in which the meeting has a job the state of one of the meeting's jobs in
\* that stage's queue.
C19_ReportsQueueState ==
  \A m \in Meetings : \A s \in Stages :
    JobsOf(s, m) # {}
      => GetPipelineStatus(m, TRUE).stages[s].state
           \in {Job(s, i).state : i \in JobsOf(s, m)}

\* C20: a step in which onTranscriptionComplete runs for a meeting that
\* already has fan-out jobs from an earlier run of it (the transcription job
\* passes from the call to its return) leaves the extraction, sentiment and
\* follow-up queues and the meeting record as they were.
C20_SecondCompletionIsNoOp ==
  [][\A m \in Meetings : \A i \in JobsOf("transcription", m) :
       (/\ \E s \in FanOutStages : JobsOf(s, m) # {}
        /\ Len(queues'["transcription"]) = Len(queues["transcription"])
        /\ queues["transcription"][i].pc = "fanout"
        /\ queues'["transcription"][i].pc = "return")
       => /\ \A s \in FanOutStages : queues'[s] = queues[s]
          /\ meetings' = meetings]_vars

\* C24: without cancellation, while a meeting's transcription job is
\* Completed, extraction and sentiment have been enqueued, one of them has a
\* job that is not yet Completed and no required stage has a terminally
\* failed job, the meeting's status is 'transcribed'.
C24_TranscribedDuringFanOut ==
  \A m \in Meetings :
    (/\ cancelCalls = 0
     /\ \A i \in JobsOf("transcription", m) : Job("transcription", i).state = "completed"
     /\ JobsOf("transcription", m) # {}
     /\ \A s \in {"extraction", "sentiment"} : JobsOf(s, m) # {}
     /\ \E s \in {"extraction", "sentiment"} : \E i \in JobsOf(s, m) :
          Job(s, i).state # "completed"
     /\ ~FailedRequired(queues, m))
    => meetings[m].status = "transcribed"

\* C26: a startPipeline call that the broker accepts, made while the
\* meeting's transcription job is Completed or Failed and still kept in the
\* queue, leaves a Waiting transcription job of the meeting in the queue.
C26_ResubmitAfterTerminal ==
  [][\A m \in Meetings :
       (/\ startCalls' = startCalls + 1
        /\ lastStart'.meetingId = m
        /\ lastStart'.result # "error"
        /\ JobsOf("transcription", m) # {}
        /\ \A i \in JobsOf("transcription", m) :
             Job("transcription", i).state \in {"completed", "failed"})
       => \E i \in DOMAIN queues'["transcription"] :
            /\ queues'["transcription"][i].meetingId = m
            /\ queues'["transcription"][i].state = "waiting"]_vars

\* C27: the progress of a transcription job is within 0..100 and no step
\* lowers it.
C27_ProgressMonotone ==
  /\ [](\A i \in DOMAIN queues["transcription"] :
          Job("transcription", i).progress \in 0..100)
  /\ [][\A i \in DOMAIN queues["transcription"] :
          (/\ i \in DOMAIN queues'["transcription"]
           /\ queues'["transcription"][i].id = queues["transcription"][i].id
           /\ Len(queues'["transcription"]) = Len(queues["transcription"]))
          => queues'["transcription"][i].progress >= queues["transcription"][i].progress]_vars

\* C28: in every state, cancelPipeline for an existing meeting ends without
\* an error and leaves the status 'cancelled', and a second cancelPipeline
\* right after it ends without an error and leaves the queues and the status
\* as the first call left them.
C28_CancelIdempotent ==
  \A m \in Meetings :
    meetings[m].status # "absent" =>
      LET first == CancelOn(queues, meetings, m)
          second == CancelOn(first.queues, first.meetings, m)
      IN /\ ~first.error
         /\ first.meetings[m].status = "cancelled"
         /\ ~second.error
         /\ second.queues = first.queues
         /\ second.meetings[m].status = "cancelled"

\* C21: while a meeting has been submitted once (one pipeline run),
\* processing.completedAt has been written at most once.
C21_CompletedAtOnce ==
  \A m \in Meetings : startCalls <= 1 => meetings[m].completedAt <= 1

\* C22: while a meeting has been submitted once (one pipeline run), no step
\* changes a processing.startedAt that is set.
C22_StartedAtOnce ==
  [][\A m \in Meetings :
       (startCalls' <= 1 /\ meetings[m].startedAt # 0)
         => meetings'[m].startedAt = meetings[m].startedAt]_vars

\* C29: whatever the interleaving of the extraction worker and the sentiment
\* worker on one meeting, once both have completed (one pipeline run, no
\* failure, no stall, no cancellation, the follow-up worker has not finished)
\* processing.cost holds the transcription cost, the extraction cost and the
\* sentiment cost, each once.
C29_NoLostCost ==
  \A m \in Meetings :
    (/\ startCalls = 1 /\ faults = 0 /\ stalls = 0 /\ cancelCalls = 0
     /\ RequiredSucceeded(m)
     /\ \A i \in JobsOf("followup", m) : Job("followup", i).state # "completed")
      => \A s \in RequiredStages : meetings[m].cost[s] = scenario.cost

\* C23: within one pipeline run (every task has one payload) a stage that is
\* executed again, after a retry or a stall, does not accumulate its outputs:
\* the commitments hold at most the follow-up entries of one detection and
\* processing.cost contains the cost of each stage at most once.
C23_ReexecutionIdempotent ==
  \A m \in Meetings :
    startCalls <= 1
      => /\ meetings[m].followUps <= scenario.detections
         /\ \A s \in Stages : meetings[m].cost[s] <= scenario.cost

------------------------------------------------------------------------------
\* The pipeline with a worker process that keeps running: no worker dies
\* (no stall), nobody cancels, every claimed job is run to the end of its
\* processor, every delayed job is promoted when its delay has passed, and a
\* free processor claims a waiting job.  Meetings enter the pipeline by an
\* upload or by startPipeline.

FairInit ==
  /\ meetings = [m \in Meetings |->
                   [status |-> "absent", error |-> "none", hasFile |-> FALSE,
                    startedAt |-> 0, completedAt |-> 0, cost |-> ZeroCost, followUps |-> 0]]
  /\ queues = [s \in Stages |-> <<>>]
  /\ nextId = [s \in Stages |-> 1]
  /\ startCalls = 0
  /\ cancelCalls = 0
  /\ stalls = 0
  /\ faults = 0
  /\ lastStart = [meetingId |-> "none", result |-> "none", upload |-> NoUpload]
  /\ scenario \in FairScenarios

PromoteStep == \E s \in Stages : \E i \in DOMAIN queues[s] : Promote(s, i)

TClaimStep == \E i \in DOMAIN queues["transcription"] : TClaim(i)

TValidateStep == \E i \in DOMAIN queues["transcription"] : TValidate(i)

TTranscribeStep == \E i \in DOMAIN queues["transcription"] : TTranscribe(i)

TFanOutStep == \E i \in DOMAIN queues["transcription"] : TFanOut(i)

TReturnStep == \E i \in DOMAIN queues["transcription"] : TReturn(i)

EStartStep == \E i \in DOMAIN queues["extraction"] : EStart(i)

EFinishStep == \E i \in DOMAIN queues["extraction"] : EFinish(i)

SStartStep == \E i \in DOMAIN queues["sentiment"] : SStart(i)

SFinishStep == \E i \in DOMAIN queues["sentiment"] : SFinish(i)

FStartStep == \E i \in DOMAIN queues["followup"] : FStart(i)

FFinishStep == \E i \in DOMAIN queues["followup"] : FFinish(i)

FairNext ==
  \/ \E m \in Meetings : CreateMeeting(m)
  \/ \E m \in Meetings : UploadFileToCloud(m)
  \/ \E m \in Meetings : StartPipeline(m)
  \/ PromoteStep
  \/ TClaimStep
  \/ TValidateStep
  \/ TTranscribeStep
  \/ TFanOutStep
  \/ TReturnStep
  \/ EStartStep
  \/ EFinishStep
  \/ SStartStep
  \/ SFinishStep
  \/ FStartStep
  \/ FFinishStep

FairSpec ==
  /\ FairInit
  /\ [][FairNext]_vars
  /\ WF_vars(PromoteStep)
  /\ WF_vars(TClaimStep) /\ WF_vars(TValidateStep) /\ WF_vars(TTranscribeStep)
  /\ WF_vars(TFanOutStep) /\ WF_vars(TReturnStep)
  /\ WF_vars(EStartStep) /\ WF_vars(EFinishStep)
  /\ WF_vars(SStartStep) /\ WF_vars(SFinishStep)
  /\ WF_vars(FStartStep) /\ WF_vars(FFinishStep)

\* the positions of a queue that can hold a job
JobSlots == 1..(2 * MaxStartCalls)

IsIn(stage, i, states) == i \in DOMAIN queues[stage] /\ queues[stage][i].state \in states

\* a step in which the processor of job i of the stage raises an error
ErrorIn(stage, i) ==
  /\ IsIn(stage, i, {"active"})
  /\ queues'[stage][i] # queues[stage][i]
  /\ faults' > faults
  /\ queues[stage][i].pc # "fanout" \/ queues'[stage][i].pc # "return"

ManagerStarted == \E manager \in Managers : scenario.processors = StartedBy(manager)

\* C30: once a worker manager has started the workers, every job that waits
\* on one of the four queues is eventually claimed (becomes active).
C30_WaitingEventuallyClaimed ==
  \A s \in Stages : \A i \in JobSlots :
    (ManagerStarted /\ IsIn(s, i, {"waiting"})) ~> IsIn(s, i, {"active"})

Next ==
  \/ \E m \in Meetings : CreateMeeting(m)
  \/ \E m \in Meetings : UploadFileToCloud(m)
  \/ \E m \in Meetings : StartPipeline(m)
  \/ \E m \in Meetings : AttachFile(m)
  \/ \E s \in Stages : \E i \in DOMAIN queues[s] : Promote(s, i)
  \/ \E i \in DOMAIN queues["transcription"] : TClaim(i)
  \/ \E i \in DOMAIN queues["transcription"] : TValidate(i)
  \/ \E i \in DOMAIN queues["transcription"] : TTranscribe(i)
  \/ \E i \in DOMAIN queues["transcription"] : TFanOut(i)
  \/ \E i \in DOMAIN queues["transcription"] : TReturn(i)
  \/ \E i \in DOMAIN queues["extraction"] : EStart(i)
  \/ \E i \in DOMAIN queues["extraction"] : EFinish(i)
  \/ \E i \in DOMAIN queues["sentiment"] : SStart(i)
  \/ \E i \in DOMAIN queues["sentiment"] : SFinish(i)
  \/ \E i \in DOMAIN queues["followup"] : FStart(i)
  \/ \E i \in DOMAIN queues["followup"] : FFinish(i)
  \/ \E s \in Stages : \E i \in DOMAIN queues[s] : Stall(s, i)
  \/ \E m \in Meetings : CancelPipeline(m)

Spec == Init /\ [][Next]_vars
====
